---- MODULE Spec2Model ----
(***************************************************************************)
(* A model of the TI-99/4A disk image codec of js99er-angular              *)
(* (src/app/emulator/classes/diskimage.ts): the file catalog, the lazily   *)
(* cached binary image, the single-file TIFILES import/export and the      *)
(* sector image encode/decode.                                             *)
(*                                                                         *)
(* Strings are sequences of character codes; a byte buffer (number[] or a  *)
(* Uint8Array built from one) is a sequence of bytes, index i of the code   *)
(* being element i + 1.  A disk image buffer (a Uint8Array of              *)
(* totalSectors * 256 bytes) is the record [len, sec]: len is its length    *)
(* in bytes and sec maps the number of every sector that holds a non-zero  *)
(* byte to its 256 bytes; all other bytes below len are zero.  Two such     *)
(* records are equal exactly when the buffers are equal byte for byte.     *)
(***************************************************************************)
EXTENDS Integers, Sequences, FiniteSets, TLC

VARIABLES name, files, geometry, binaryImage, eventHandler, events, lastOp, ret,
          app

vars == <<name, files, geometry, binaryImage, eventHandler, events, lastOp, ret, app>>

(***************************************************************************)
(* Values of the language and enums of ./disk                              *)
(***************************************************************************)
\* null is the empty tuple and a present value v the one-element tuple <<v>>;
\* undefined, the value of a read past the end of a buffer, is -1: like
\* undefined it fails every comparison ch >= 32 and j < ch.
Null == <<>>
Some(v) == <<v>>
Undefined == -1

FileType_DATA == 0
FileType_PROGRAM == 1
RecordType_FIXED == 0
RecordType_VARIABLE == 1
DataType_DISPLAY == 0
DataType_INTERNAL == 1

SectorSize == 256
HeaderSize == 128
TerminatorByte == 255
MaxIndexedFiles == 127

Min(a, b) == IF a < b THEN a ELSE b
Max(a, b) == IF a > b THEN a ELSE b

Zeros(k) == [i \in 1..k |-> 0]
Spaces(k) == [i \in 1..k |-> 32]

\* s.substr(0, k)
Take(s, k) == SubSeq(s, 1, Min(Len(s), k))
Drop(s, k) == SubSeq(s, k + 1, Len(s))

RECURSIVE Flatten(_)
Flatten(ss) == IF ss = <<>> THEN <<>> ELSE Head(ss) \o Flatten(Tail(ss))

\* Lexicographic order on character codes: String.localeCompare restricted
\* to names of upper-case letters and digits, where the two orders agree.
RECURSIVE StrLess(_, _)
StrLess(a, b) ==
    IF a = <<>> THEN b # <<>>
    ELSE IF b = <<>> THEN FALSE
    ELSE IF Head(a) # Head(b) THEN Head(a) < Head(b)
    ELSE StrLess(Tail(a), Tail(b))

\* Characters String.prototype.trim removes, among the codes 0..255.
IsWhite(c) == c \in {9, 10, 11, 12, 13, 32, 160}

RECURSIVE TrimLeft(_)
TrimLeft(s) == IF s # <<>> /\ IsWhite(Head(s)) THEN TrimLeft(Tail(s)) ELSE s

RECURSIVE TrimRight(_)
TrimRight(s) ==
    IF s # <<>> /\ IsWhite(s[Len(s)]) THEN TrimRight(SubSeq(s, 1, Len(s) - 1)) ELSE s

Trim(s) == TrimRight(TrimLeft(s))

\* toUpperCase on the codes 0..255 (181, 223 and 255, whose upper case lies
\* outside 0..255, do not occur in the buffers and names used here).
ToUpperCase(s) ==
    [i \in 1..Len(s) |->
        IF s[i] \in (97..122) \cup ((224..254) \ {247}) THEN s[i] - 32 ELSE s[i]]

\* The characters of bytes that are printable ASCII (ch >= 32 && ch < 128);
\* an undefined byte compares false and is dropped.
Printable(bytes) == SelectSeq(bytes, LAMBDA ch : ch # Undefined /\ ch >= 32 /\ ch < 128)

\* The characters matching /[0-9A-Za-z_\-]/
IsNameChar(c) == c \in (48..57) \cup (65..90) \cup (97..122) \cup {95, 45}

(***************************************************************************)
(* writeByte, writeWord, writeLEWord, writeString: the bytes each appends  *)
(* at the write position                                                   *)
(***************************************************************************)
\* b & 0x00FF (undefined & 0xFF is 0)
writeByte(b) == <<IF b = Undefined THEN 0 ELSE b % 256>>

writeWord(w) == <<(w \div 256) % 256, w % 256>>

writeLEWord(w) == <<w % 256, (w \div 256) % 256>>

writeString(str, padLen) ==
    [i \in 1..Min(Len(str), padLen) |-> str[i]] \o Spaces(Max(padLen - Len(str), 0))

(***************************************************************************)
(* DiskFile, FixedRecord and VariableRecord (./diskfile)                   *)
(***************************************************************************)
\* new FixedRecord(data, length): the payload has exactly length bytes,
\* zero-padded or cut.
FixedRecord(data, length) ==
    [i \in 1..length |-> IF i <= Len(data) THEN data[i] ELSE 0]

VariableRecord(data) == data

DiskFile(fileName, fileType, recordType, recordLength, dataType) ==
    [name |-> fileName, fileType |-> fileType, recordType |-> recordType,
     recordLength |-> recordLength, dataType |-> dataType,
     records |-> <<>>, program |-> <<>>]

putRecord(file, record) == [file EXCEPT !.records = Append(@, record)]

setProgram(file, program) == [file EXCEPT !.program = program]

getRecordCount(file) == Len(file.records)

\* Bytes left in the last sector after packing the variable records
\* records[i..] with sectorBytesLeft bytes left, and the sectors used.
RECURSIVE variableFill(_, _, _, _)
variableFill(records, i, sectors, sectorBytesLeft) ==
    IF i > Len(records) THEN [sectors |-> sectors, sectorBytesLeft |-> sectorBytesLeft]
    ELSE LET recordSize == Len(records[i]) + 1
         IN  IF sectorBytesLeft >= recordSize
             THEN variableFill(records, i + 1, sectors, sectorBytesLeft - recordSize)
             ELSE variableFill(records, i + 1, sectors + 1, SectorSize - recordSize)

getSectorCount(file) ==
    IF file.fileType = FileType_DATA
    THEN IF file.recordType = RecordType_FIXED
         THEN LET recsPerSector == SectorSize \div file.recordLength
                  n == Len(file.records)
              IN  (n \div recsPerSector) + (IF n % recsPerSector = 0 THEN 0 ELSE 1)
         ELSE variableFill(file.records, 1, 1, SectorSize).sectors
    ELSE LET n == Len(file.program)
         IN  (n \div SectorSize) + (IF n % SectorSize = 0 THEN 0 ELSE 1)

getEOFOffset(file) ==
    IF file.fileType = FileType_DATA
    THEN IF file.recordType = RecordType_FIXED
         THEN (Len(file.records) % (SectorSize \div file.recordLength)) * file.recordLength
         ELSE (SectorSize - variableFill(file.records, 1, 1, SectorSize).sectorBytesLeft)
                  % SectorSize
    ELSE Len(file.program) % SectorSize

\* The status flags byte of a header or FDR.
statusFlags(file) == file.recordType * 128 + file.dataType * 2 + file.fileType

\* The payload of a file: its records in order, or its program bytes.
Payload(file) == IF file.fileType = FileType_DATA THEN file.records ELSE <<file.program>>

(***************************************************************************)
(* createTIFile: the TIFILES bytes of a catalog entry                      *)
(***************************************************************************)
TIFILES == <<84, 73, 70, 73, 76, 69, 83>>

\* The records-per-sector byte of a TIFILES header.
tiRecsPerSector(file) ==
    IF file.fileType = FileType_DATA /\ file.recordLength > 0
    THEN SectorSize \div (file.recordLength
                          + (IF file.recordType = RecordType_VARIABLE THEN 1 ELSE 0))
    ELSE 0

\* The number-of-level-3-records word of a header or FDR.
level3Records(file) ==
    IF file.fileType = FileType_DATA
    THEN IF file.recordType = RecordType_FIXED
         THEN getRecordCount(file) ELSE getSectorCount(file)
    ELSE 0

tiHeader(file, fileName) ==
    LET h == writeByte(7) \o writeString(TIFILES, 7)
             \o writeWord(getSectorCount(file))
             \o writeByte(statusFlags(file))
             \o writeByte(tiRecsPerSector(file))
             \o writeByte(getEOFOffset(file))
             \o writeByte(file.recordLength)
             \o writeLEWord(level3Records(file))
             \o writeString(fileName, 10)
    IN  h \o Zeros(HeaderSize - Len(h))

\* FIXED content: data is everything written so far (n = Len(data)); after
\* recordPerSector records the output is zero-filled until n & 0xFF = 0.
RECURSIVE tiFixed(_, _, _, _, _)
tiFixed(records, i, data, recCnt, recordPerSector) ==
    IF i > Len(records) THEN data
    ELSE LET d1 == data \o [j \in 1..Len(records[i]) |-> writeByte(records[i][j])[1]]
         IN  IF recCnt + 1 = recordPerSector
             THEN tiFixed(records, i + 1, d1 \o Zeros((-Len(d1)) % SectorSize), 0,
                          recordPerSector)
             ELSE tiFixed(records, i + 1, d1, recCnt + 1, recordPerSector)

\* Closes a sector that has sectorBytesLeft > 0 bytes left: 0xFF, then zeros.
closeSector(sectorBytesLeft) ==
    IF sectorBytesLeft > 0
    THEN writeByte(TerminatorByte) \o Zeros(sectorBytesLeft - 1)
    ELSE <<>>

\* VARIABLE content: the bytes written for records[i..] with sectorBytesLeft
\* bytes left in the current sector, the closing of the last sector included.
RECURSIVE packVariable(_, _, _)
packVariable(records, i, sectorBytesLeft) ==
    IF i > Len(records) THEN closeSector(sectorBytesLeft)
    ELSE LET recData == records[i]
             brk == sectorBytesLeft <= Len(recData)
             left == IF brk THEN SectorSize ELSE sectorBytesLeft
         IN  (IF brk THEN closeSector(sectorBytesLeft) ELSE <<>>)
             \o writeByte(Len(recData))
             \o [j \in 1..Len(recData) |-> writeByte(recData[j])[1]]
             \o packVariable(records, i + 1, left - 1 - Len(recData))

tiContent(file, header) ==
    IF file.fileType = FileType_DATA
    THEN IF file.recordType = RecordType_FIXED
         THEN tiFixed(file.records, 1, header, 0, SectorSize \div file.recordLength)
         ELSE header \o packVariable(file.records, 1, SectorSize)
    ELSE header \o file.program

\* createTIFile(fileName) on the catalog cat: the bytes, or null.
createTIFile(cat, fileName) ==
    IF fileName \in DOMAIN cat
    THEN Some(tiContent(cat[fileName], tiHeader(cat[fileName], fileName)))
    ELSE Null

(***************************************************************************)
(* loadTIFile: TIFILES, V9T9 or plain bytes to a catalog entry             *)
(***************************************************************************)
\* fileBuffer[i], i counted from 0
Rd(fileBuffer, i) ==
    IF i >= 0 /\ i < Len(fileBuffer) THEN fileBuffer[i + 1] ELSE Undefined

\* fileBuffer[from], ..., fileBuffer[from + n - 1]
RdRange(fileBuffer, from, n) == [k \in 1..n |-> Rd(fileBuffer, from + k - 1)]

\* The records of one 256-byte sector of a VARIABLE file: sector holds the
\* bytes of the sector, pos is the index in it of the next unread byte.
RECURSIVE variableRecords(_, _, _, _)
variableRecords(sector, pos, recordLength, sectorBytesLeft) ==
    IF recordLength # TerminatorByte /\ sectorBytesLeft > 0
    THEN LET n == Min(Max(recordLength, 0), sectorBytesLeft)
             data == [j \in 1..n |-> sector[pos + j - 1]]
             left == sectorBytesLeft - n
         IN  <<VariableRecord(data)>>
             \o (IF left > 0
                 THEN variableRecords(sector, pos + n + 1, sector[pos + n], left - 1)
                 ELSE <<>>)
    ELSE <<>>

variableSector(sector) == variableRecords(sector, 2, sector[1], SectorSize - 1)

\* The name derived from the supplied file name in the TIFILES branch.
tiNameFromFileName(fileName) == Take(SelectSeq(fileName, IsNameChar), 10)

\* The name derived from the supplied file name in the fallback branch.
pcNameFromFileName(fileName) ==
    IF Len(fileName) < 10 THEN SelectSeq(fileName, IsNameChar) ELSE <<>>

isTIFiles(fileBuffer) == fileBuffer[1] = 7 /\ SubSeq(fileBuffer, 2, 8) = TIFILES

isV9T9(fileBuffer, fileName) ==
    ToUpperCase(Trim(SubSeq(fileBuffer, 1, 8))) = ToUpperCase(Trim(Take(fileName, 8)))

\* The header fields loadTIFile works with, by detected format.
tiFields(fileName, fileBuffer, ignoreTIFileName) ==
    IF isTIFiles(fileBuffer)
    THEN LET embedded ==
                 IF ~ignoreTIFileName /\ fileBuffer[17] # 202
                 THEN Trim(Printable(SubSeq(fileBuffer, 17, 26))) ELSE <<>>
             sectors == fileBuffer[9] * 256 + fileBuffer[10]
             flags == fileBuffer[11]
             eofOffset == fileBuffer[13]
         IN  [tiFileName |-> IF Len(embedded) > 0 THEN embedded
                             ELSE tiNameFromFileName(fileName),
              sectors |-> sectors,
              recsPerSector |-> fileBuffer[12],
              recordLength |-> fileBuffer[14],
              recordType |-> (flags \div 128) % 2,
              datatype |-> (flags \div 2) % 2,
              fileType |-> flags % 2,
              fileLength |-> sectors * 256
                             - (IF eofOffset > 0 THEN 256 - eofOffset ELSE 0),
              sectorOffset |-> HeaderSize,
              pcFormat |-> FALSE]
    ELSE IF isV9T9(fileBuffer, fileName)
    THEN LET flags == fileBuffer[13]
             sectors == fileBuffer[15] * 256 + fileBuffer[16]
             eofOffset == fileBuffer[17]
         IN  [tiFileName |-> Trim(Printable(SubSeq(fileBuffer, 1, 10))),
              sectors |-> sectors,
              recsPerSector |-> fileBuffer[14],
              recordLength |-> fileBuffer[18],
              recordType |-> (flags \div 128) % 2,
              datatype |-> (flags \div 2) % 2,
              fileType |-> flags % 2,
              fileLength |-> sectors * 256
                             - (IF eofOffset > 0 THEN 256 - eofOffset ELSE 0),
              sectorOffset |-> HeaderSize,
              pcFormat |-> FALSE]
    ELSE [tiFileName |-> pcNameFromFileName(fileName),
          sectors |-> Len(fileBuffer) \div 256,
          recsPerSector |-> 3,
          recordLength |-> 80,
          recordType |-> RecordType_FIXED,
          datatype |-> DataType_DISPLAY,
          fileType |-> FileType_DATA,
          fileLength |-> Len(fileBuffer),
          sectorOffset |-> 0,
          pcFormat |-> TRUE]

\* FIXED records of a TIFILES or V9T9 file: per sector, the recsPerSector
\* chunks that start below fileLength.
tiFixedRecords(fileBuffer, h) ==
    LET slots == [k \in 1..(h.sectors * h.recsPerSector) |->
                     [sector |-> (k - 1) \div h.recsPerSector,
                      rec |-> (k - 1) % h.recsPerSector]]
        used == SelectSeq(slots,
                    LAMBDA s : s.sector * 256 + s.rec * h.recordLength < h.fileLength)
    IN  [k \in 1..Len(used) |->
            FixedRecord(RdRange(fileBuffer,
                                h.sectorOffset + used[k].sector * 256
                                    + used[k].rec * h.recordLength,
                                h.recordLength),
                        h.recordLength)]

\* FIXED records of the fallback format, read from byte i on: full records
\* of recordLength bytes, after each of which two bytes are skipped when
\* fileBuffer[i] === 0xd || fileBuffer[i + 1] === 0xa, and a last short one.
RECURSIVE pcFixedRecords(_, _, _)
pcFixedRecords(fileBuffer, i, recordLength) ==
    IF i + recordLength <= Len(fileBuffer)
    THEN LET next == i + recordLength
         IN  <<FixedRecord(RdRange(fileBuffer, i, recordLength), recordLength)>>
             \o pcFixedRecords(fileBuffer,
                    IF Rd(fileBuffer, next) = 13 \/ Rd(fileBuffer, next + 1) = 10
                    THEN next + 2 ELSE next,
                    recordLength)
    ELSE IF i < Len(fileBuffer)
    THEN <<FixedRecord(RdRange(fileBuffer, i, Len(fileBuffer) - i), recordLength)>>
    ELSE <<>>

tiVariableRecords(fileBuffer, h) ==
    Flatten([sector \in 1..h.sectors |->
                variableSector(RdRange(fileBuffer,
                                       h.sectorOffset + (sector - 1) * 256, SectorSize))])

\* What loadTIFile does before putFile: status is "file" with the decoded
\* entry, "null" for a rejected buffer, "throw" when new Uint8Array(fileLength)
\* raises a RangeError on a negative length.
tiDecode(fileName, fileBuffer, ignoreTIFileName) ==
    IF fileBuffer # Null /\ Len(fileBuffer[1]) > HeaderSize
    THEN LET buf == fileBuffer[1]
             h == tiFields(fileName, buf, ignoreTIFileName)
             file == DiskFile(h.tiFileName, h.fileType, h.recordType,
                              h.recordLength, h.datatype)
         IN  IF Len(buf) >= h.sectorOffset + h.fileLength
             THEN IF h.fileType = FileType_DATA
                  THEN [status |-> "file",
                        file |->
                          [file EXCEPT !.records =
                              IF h.recordType = RecordType_FIXED
                              THEN IF ~h.pcFormat
                                   THEN tiFixedRecords(buf, h)
                                   ELSE pcFixedRecords(buf, 0, h.recordLength)
                              ELSE tiVariableRecords(buf, h)]]
                  ELSE IF h.fileLength < 0
                  THEN [status |-> "throw", file |-> Null]
                  ELSE [status |-> "file",
                        file |-> setProgram(DiskFile(h.tiFileName, h.fileType, 0, 0, 0),
                                            RdRange(buf, h.sectorOffset, h.fileLength))]
             ELSE [status |-> "null", file |-> Null]
    ELSE [status |-> "null", file |-> Null]

(***************************************************************************)
(* Geometry and allocation units                                           *)
(***************************************************************************)
PhysicalProperties(totalSectors, sectorsPerTrack, tracksPerSide, numberOfSides, density) ==
    [totalSectors |-> totalSectors, sectorsPerTrack |-> sectorsPerTrack,
     tracksPerSide |-> tracksPerSide, numberOfSides |-> numberOfSides,
     density |-> density]

\* getSectorsPerAllocationUnit with <= for < in its comparisons
getSectorsPerAllocationUnitInclusive(geo) ==
    IF geo.totalSectors <= 1600 THEN 1
    ELSE IF geo.totalSectors <= 3200 THEN 2
    ELSE IF geo.totalSectors <= 6400 THEN 4
    ELSE 8

getSectorsPerAllocationUnit(geo) ==
    IF geo.totalSectors < 1600 THEN 1
    ELSE IF geo.totalSectors < 3200 THEN 2
    ELSE IF geo.totalSectors < 6400 THEN 4
    ELSE 8

getSectorsPerAllocationUnitForDataChainPointers(geo) ==
    IF geo.totalSectors < 4096 THEN 1 ELSE getSectorsPerAllocationUnit(geo)

\* ceilN that does not round
ceilNExact(n, N) == n

ceilN(n, N) == IF (n % N) # 0 THEN n + (N - (n % N)) ELSE n

\* Math.ceil(sectors / sectorsPerAllocationUnit)
sectorsToAllocationUnits(sectors, sectorsPerAllocationUnit) ==
    (sectors + sectorsPerAllocationUnit - 1) \div sectorsPerAllocationUnit

(***************************************************************************)
(* Disk image buffers                                                      *)
(***************************************************************************)
IsZeroSector(bytes) == \A i \in 1..Len(bytes) : bytes[i] = 0

\* The buffer of len bytes whose sectors S hold content[s]: writes at or
\* past the end of a Uint8Array are dropped.
Image(len, S, content(_)) ==
    LET kept == {s \in S : (s + 1) * SectorSize <= len /\ ~IsZeroSector(content(s))}
    IN  [len |-> len, sec |-> [s \in kept |-> content(s)]]

\* fileBuffer[i] of a disk image buffer
ImgRd(img, i) ==
    IF i < 0 \/ i >= img.len THEN Undefined
    ELSE IF (i \div SectorSize) \in DOMAIN img.sec
    THEN img.sec[i \div SectorSize][(i % SectorSize) + 1]
    ELSE 0

\* The n bytes of a disk image buffer from offset from; whole sectors are
\* read at once.
ImgRange(img, from, n) ==
    IF from % SectorSize = 0 /\ n = SectorSize /\ from + n <= img.len /\ from >= 0
    THEN IF (from \div SectorSize) \in DOMAIN img.sec
         THEN img.sec[from \div SectorSize] ELSE Zeros(SectorSize)
    ELSE [k \in 1..n |-> ImgRd(img, from + k - 1)]

\* (hi << 8) + lo of two bytes read from a buffer
Word(hi, lo) == (IF hi = Undefined THEN 0 ELSE hi * 256) + lo

(***************************************************************************)
(* getFilesArray                                                           *)
(***************************************************************************)
\* The names of S in the order filesArray.sort gives them: the name at
\* position i is the one that i - 1 names of S come before.
SortNames(S) ==
    LET rank == [x \in S |-> Cardinality({y \in S : StrLess(y, x)})]
    IN  [i \in 1..Cardinality(S) |-> CHOOSE x \in S : rank[x] = i - 1]

getFilesArray(cat) == LET names == SortNames(DOMAIN cat)
                      IN  [i \in 1..Len(names) |-> cat[names[i]]]

(***************************************************************************)
(* createBinaryImage                                                       *)
(***************************************************************************)
DSK == <<68, 83, 75>>

\* The sectors of 256 bytes a byte stream fills, the last one zero-filled.
RECURSIVE Sectors(_)
Sectors(stream) ==
    IF Len(stream) = 0 THEN <<>>
    ELSE IF Len(stream) <= SectorSize
    THEN <<stream \o Zeros(SectorSize - Len(stream))>>
    ELSE <<SubSeq(stream, 1, SectorSize)>> \o Sectors(Drop(stream, SectorSize))

\* FIXED packing: the records in groups of recordPerSector, each group
\* written from the start of its own sector.
fixedSectors(records, recordPerSector) ==
    LET n == Len(records)
        count == (n + recordPerSector - 1) \div recordPerSector
    IN  [g \in 1..count |->
            LET bytes == Flatten([k \in 1..Min(recordPerSector, n - (g - 1) * recordPerSector)
                                     |-> LET r == records[(g - 1) * recordPerSector + k]
                                         IN  [j \in 1..Len(r) |-> writeByte(r[j])[1]]])
            IN  bytes \o Zeros(SectorSize - Len(bytes))]

\* The data sectors written for a file, in order from startSectorNo.
dataSectors(file) ==
    IF file.fileType = FileType_DATA
    THEN IF file.recordType = RecordType_FIXED
         THEN fixedSectors(file.records, SectorSize \div file.recordLength)
         ELSE Sectors(packVariable(file.records, 1, SectorSize))
    ELSE Sectors(file.program)

\* sectorNo after the data of a file was written from startSectorNo.  (For a
\* VARIABLE file sectorBytesLeft is 0 after the last sector was closed, so
\* the decrement under sectorBytesLeft === 256 never happens.)
lastSectorNo(file, startSectorNo) ==
    IF file.fileType = FileType_DATA
    THEN IF file.recordType = RecordType_FIXED
         THEN LET recordPerSector == SectorSize \div file.recordLength
                  n == Len(file.records)
              IN  startSectorNo + (n \div recordPerSector)
                  - (IF n % recordPerSector = 0 THEN 1 ELSE 0)
         ELSE startSectorNo + Len(dataSectors(file)) - 1
    ELSE startSectorNo + (Len(file.program) \div 256)
         - (IF Len(file.program) % 256 = 0 THEN 1 ELSE 0)

\* Where the FDR and the data of files[f], ..., files[fileCount - 1] go,
\* nextDataSectorNo being the data sector cursor before files[f]: for each
\* file fdrSectorNo, startSectorNo, sectorNo.  The loop over the files is
\* split in two halves, the cursor going from the first half to the second.
RECURSIVE layout(_, _, _, _, _)
layout(filesArray, f, fileCount, nextDataSectorNo, sectorsPerAU) ==
    IF f >= fileCount THEN <<>>
    ELSE IF f + 1 = fileCount
    THEN LET file == filesArray[f + 1]
         IN  <<[file |-> file,
                fdrSectorNo |-> Max(2, sectorsPerAU) + f * sectorsPerAU,
                startSectorNo |-> nextDataSectorNo,
                sectorNo |-> lastSectorNo(file, nextDataSectorNo)]>>
    ELSE LET half == (f + fileCount) \div 2
             first == layout(filesArray, f, half, nextDataSectorNo, sectorsPerAU)
         IN  first \o layout(filesArray, half, fileCount,
                             ceilN(first[Len(first)].sectorNo + 1, sectorsPerAU),
                             sectorsPerAU)

\* imageLayout without the limit of 127 files
imageLayoutUnlimited(geo, cat) ==
    LET filesArray == getFilesArray(cat)
        fileCount == Len(filesArray)
        sectorsPerAU == getSectorsPerAllocationUnit(geo)
    IN  layout(filesArray, 0, fileCount,
               ceilN(Max(2, sectorsPerAU) + fileCount * sectorsPerAU, sectorsPerAU),
               sectorsPerAU)

imageLayout(geo, cat) ==
    LET filesArray == getFilesArray(cat)
        fileCount == Min(Len(filesArray), MaxIndexedFiles)
        sectorsPerAU == getSectorsPerAllocationUnit(geo)
    IN  layout(filesArray, 0, fileCount,
               ceilN(Max(2, sectorsPerAU) + fileCount * sectorsPerAU, sectorsPerAU),
               sectorsPerAU)

\* The records-per-sector byte of an FDR.
fdrRecsPerSector(file) ==
    IF file.fileType = FileType_DATA
    THEN SectorSize \div (file.recordLength
                          + (IF file.recordType = RecordType_VARIABLE THEN 1 ELSE 0))
    ELSE 0

\* The data chain pointer of a file: 12 bits of start AU, 12 bits of sector
\* count, in three bytes.
dataChainPointerBlock(e, sectorsPerAUForDataChainPointers) ==
    LET au == sectorsToAllocationUnits(e.startSectorNo, sectorsPerAUForDataChainPointers)
        sectorCount == e.sectorNo - e.startSectorNo
    IN  writeByte(au % 256)
        \o writeByte((sectorCount % 16) * 16 + ((au \div 256) % 16))
        \o writeByte((sectorCount \div 16) % 256)

fdrSector(e, sectorsPerAUForDataChainPointers) ==
    LET file == e.file
        h == writeString(file.name, 10)
             \o writeWord(0)
             \o writeByte(statusFlags(file))
             \o writeByte(fdrRecsPerSector(file))
             \o writeWord(getSectorCount(file))
             \o writeByte(getEOFOffset(file))
             \o writeByte(IF file.fileType = FileType_DATA THEN file.recordLength ELSE 0)
             \o writeLEWord(level3Records(file))
        d == h \o Zeros(28 - Len(h)) \o dataChainPointerBlock(e, sectorsPerAUForDataChainPointers)
    IN  d \o Zeros(SectorSize - Len(d))

\* The allocation units whose bit the file loop sets.
allocatedAUs(lay, sectorsPerAU) ==
    UNION {(sectorsToAllocationUnits(lay[f].startSectorNo, sectorsPerAU)
              .. sectorsToAllocationUnits(lay[f].sectorNo, sectorsPerAU))
           \cup {sectorsToAllocationUnits(lay[f].fdrSectorNo, sectorsPerAU)}
           : f \in 1..Len(lay)}

\* byte | (the bits of aus that belong to bitmap byte index b)
RECURSIVE orBits(_, _, _, _)
orBits(byte, b, aus, k) ==
    IF k > 7 THEN 0
    ELSE (IF (byte \div (2 ^ k)) % 2 = 1 \/ (8 * b + k) \in aus THEN 2 ^ k ELSE 0)
         + orBits(byte, b, aus, k + 1)

\* Sector 0: the volume information block and the allocation bit map.  (The
\* bits of allocation units from 1600 on would fall outside sector 0; the
\* catalogs used here stay far below.)
volumeSector(diskName, geo, lay) ==
    LET sectorsPerAU == getSectorsPerAllocationUnit(geo)
        aus == allocatedAUs(lay, sectorsPerAU)
        h == writeString(diskName, 10)
             \o writeWord(geo.totalSectors)
             \o writeByte(geo.sectorsPerTrack)
             \o writeString(DSK, 3)
             \o writeByte(32)
             \o writeByte(geo.tracksPerSide)
             \o writeByte(geo.numberOfSides)
             \o writeByte(geo.density)
        base == [i \in 0..255 |->
                    IF i < Len(h) THEN h[i + 1]
                    ELSE IF i = 56 THEN (IF sectorsPerAU = 1 THEN 3 ELSE 1)
                    ELSE IF i >= 236 THEN 255
                    ELSE 0]
        touched == {56 + (au \div 8) : au \in aus}
    IN  [i \in 1..SectorSize |->
            IF (i - 1) \in touched THEN orBits(base[i - 1], i - 1 - 56, aus, 0)
            ELSE base[i - 1]]

\* Sector 1: the file descriptor index record.
indexSector(lay) ==
    [i \in 1..SectorSize |->
        LET f == ((i - 1) \div 2) + 1
        IN  IF f <= Len(lay) THEN writeWord(lay[f].fdrSectorNo)[2 - (i % 2)] ELSE 0]

createBinaryImage(diskName, geo, cat) ==
    LET lay == imageLayout(geo, cat)
        dcpAU == getSectorsPerAllocationUnitForDataChainPointers(geo)
        data == [f \in 1..Len(lay) |-> dataSectors(lay[f].file)]
        fdrs == {lay[f].fdrSectorNo : f \in 1..Len(lay)}
        used == {0, 1} \cup fdrs
                \cup UNION {lay[f].startSectorNo .. (lay[f].startSectorNo + Len(data[f]) - 1)
                            : f \in 1..Len(lay)}
        content(s) ==
            IF s = 0 THEN volumeSector(diskName, geo, lay)
            ELSE IF s = 1 THEN indexSector(lay)
            ELSE IF s \in fdrs
            THEN fdrSector(lay[CHOOSE f \in 1..Len(lay) : lay[f].fdrSectorNo = s], dcpAU)
            ELSE LET f == CHOOSE f \in 1..Len(lay) :
                              s \in lay[f].startSectorNo
                                    .. (lay[f].startSectorNo + Len(data[f]) - 1)
                 IN  data[f][s - lay[f].startSectorNo + 1]
    IN  Image(geo.totalSectors * SectorSize, used, content)

(***************************************************************************)
(* The DiskImage object: o is the record of its fields, events the         *)
(* sequence of notifications its event handler has received during the     *)
(* current call, each with the disk image as the handler sees it.          *)
(***************************************************************************)
Put(f, k, v) == [x \in (DOMAIN f) \cup {k} |-> IF x = k THEN v ELSE f[x]]

Remove(f, k) == [x \in (DOMAIN f) \ {k} |-> f[x]]

EmptyCatalog == [x \in {} |-> Null]

DiskImageEvent(type, fileName) == [type |-> type, name |-> fileName]

Seen(o) == [name |-> o.name, files |-> o.files, geometry |-> o.geometry,
            binaryImage |-> o.binaryImage]

\* eventHandler is TRUE when it is a function.
fireEvent(o, event) ==
    IF o.eventHandler
    THEN [o EXCEPT !.events = Append(@, [type |-> event.type, name |-> event.name,
                                         diskImage |-> Seen(o)])]
    ELSE o

invalidateBinaryImage(o) == [o EXCEPT !.binaryImage = Null]

\* putFile without the call of invalidateBinaryImage
putFileKeepsImage(o, file) ==
    fireEvent([o EXCEPT !.files = Put(@, file.name, file)],
              DiskImageEvent("fileAdded", file.name))

\* putFile firing the event before it invalidates the image
putFileFiresFirst(o, file) ==
    invalidateBinaryImage(fireEvent([o EXCEPT !.files = Put(@, file.name, file)],
                                    DiskImageEvent("fileAdded", file.name)))

putFile(o, file) ==
    fireEvent(invalidateBinaryImage([o EXCEPT !.files = Put(@, file.name, file)]),
              DiskImageEvent("fileAdded", file.name))

deleteFile(o, fileName) ==
    fireEvent(invalidateBinaryImage([o EXCEPT !.files = Remove(@, fileName)]),
              DiskImageEvent("fileDeleted", fileName))

\* getBinaryImage encoding the image anew on every call
getBinaryImageAnew(o) ==
    [o EXCEPT !.binaryImage = Some(createBinaryImage(o.name, o.geometry, o.files))]

\* getBinaryImage: the object afterwards; the value returned is its
\* binaryImage[1].
getBinaryImage(o) ==
    IF o.binaryImage = Null
    THEN [o EXCEPT !.binaryImage = Some(createBinaryImage(o.name, o.geometry, o.files))]
    ELSE o

\* readSector: the object afterwards and the 256 bytes returned (a
\* Uint8Array stores an undefined element as 0).
readSector(o, sectorNo) ==
    LET o1 == getBinaryImage(o)
        tiDiskImage == o1.binaryImage[1]
    IN  [o |-> o1,
         ret |-> [i \in 1..SectorSize |->
                     writeByte(ImgRd(tiDiskImage, SectorSize * sectorNo + i - 1))[1]]]

\* loadTIFile invalidating the cached image before it rejects a buffer
loadTIFileRejectInvalidates(o, fileName, fileBuffer, ignoreTIFileName) ==
    LET r == tiDecode(fileName, fileBuffer, ignoreTIFileName)
    IN  IF r.status = "file"
        THEN [o |-> putFile(o, r.file), ret |-> Some(r.file), threw |-> FALSE]
        ELSE [o |-> invalidateBinaryImage(o), ret |-> Null, threw |-> r.status = "throw"]

\* loadTIFile: the object afterwards (o), the value returned (ret) and
\* whether the call raised instead of returning (threw).
loadTIFile(o, fileName, fileBuffer, ignoreTIFileName) ==
    LET r == tiDecode(fileName, fileBuffer, ignoreTIFileName)
    IN  IF r.status = "file"
        THEN [o |-> putFile(o, r.file), ret |-> Some(r.file), threw |-> FALSE]
        ELSE [o |-> o, ret |-> Null, threw |-> r.status = "throw"]

(***************************************************************************)
(* loadBinaryImage                                                         *)
(***************************************************************************)
\* One sector of a data chain decoded into acc = [records, program].
decodeSector(fileBuffer, fdr, sector, sectorsLeft, acc) ==
    IF fdr.fileType = FileType_DATA
    THEN IF fdr.recordType = RecordType_FIXED
         THEN [acc EXCEPT !.records =
                  @ \o [recordIndex \in 1..fdr.recordsPerSector |->
                           FixedRecord(ImgRange(fileBuffer,
                                                sector * 256
                                                  + (recordIndex - 1) * fdr.recordLength,
                                                fdr.recordLength),
                                       fdr.recordLength)]]
         ELSE [acc EXCEPT !.records =
                  @ \o variableSector(ImgRange(fileBuffer, sector * 256, SectorSize))]
    ELSE IF sectorsLeft > 0
    THEN [acc EXCEPT !.program =
             @ \o ImgRange(fileBuffer, sector * 256,
                           IF sectorsLeft > 1 \/ (sectorsLeft = 1 /\ fdr.endOfFileOffset = 0)
                           THEN 256 ELSE fdr.endOfFileOffset)]
    ELSE acc

\* The sectors sector..endSector of one data chain pointer; a VARIABLE
\* sector at or past the end of the buffer breaks the loop.
RECURSIVE sectorLoop(_, _, _, _, _, _)
sectorLoop(fileBuffer, fdr, sector, endSector, sectorsLeft, acc) ==
    IF sector > endSector THEN [sectorsLeft |-> sectorsLeft, acc |-> acc]
    ELSE IF fdr.fileType = FileType_DATA /\ fdr.recordType = RecordType_VARIABLE
            /\ sector * 256 >= fileBuffer.len
    THEN [sectorsLeft |-> sectorsLeft, acc |-> acc]
    ELSE sectorLoop(fileBuffer, fdr, sector + 1, endSector, sectorsLeft - 1,
                    decodeSector(fileBuffer, fdr, sector, sectorsLeft, acc))

\* The data chain pointers from dataChainPointerIndex on; dcpAU is the
\* factor the 12-bit start value is multiplied by.
RECURSIVE chainLoop(_, _, _, _, _, _, _)
chainLoop(fileBuffer, fdr, dcpAU, dataChainPointerIndex, sectorsLeft, nLast, acc) ==
    IF dataChainPointerIndex < 76 /\ sectorsLeft > 0
    THEN LET dataChainPointer == fdr.fileDescriptorRecord + 28 + 3 * dataChainPointerIndex
             b0 == ImgRd(fileBuffer, dataChainPointer)
             b1 == ImgRd(fileBuffer, dataChainPointer + 1)
             b2 == ImgRd(fileBuffer, dataChainPointer + 2)
             m == ((b1 % 16) * 256 + b0) * dcpAU
             n == b2 * 16 + (b1 \div 16)
         IN  IF m # 0
             THEN LET r == sectorLoop(fileBuffer, fdr, m, m + n - (nLast + 1),
                                      sectorsLeft, acc)
                  IN  chainLoop(fileBuffer, fdr, dcpAU, dataChainPointerIndex + 1,
                                r.sectorsLeft, n, r.acc)
             ELSE chainLoop(fileBuffer, fdr, dcpAU, dataChainPointerIndex + 1,
                            sectorsLeft, nLast, acc)
    ELSE acc

\* The fields of the file descriptor record in sector fileDescriptorSectorNo.
fdrFields(fileBuffer, fileDescriptorSectorNo) ==
    LET fileDescriptorRecord == fileDescriptorSectorNo * 256
        flags == ImgRd(fileBuffer, fileDescriptorRecord + 12)
    IN  [fileDescriptorRecord |-> fileDescriptorRecord,
         fileName |-> Trim(Printable(ImgRange(fileBuffer, fileDescriptorRecord, 10))),
         recordType |-> (flags \div 128) % 2,
         datatype |-> (flags \div 2) % 2,
         fileType |-> flags % 2,
         recordsPerSector |-> ImgRd(fileBuffer, fileDescriptorRecord + 13),
         sectorsAllocated |-> Word(ImgRd(fileBuffer, fileDescriptorRecord + 14),
                                   ImgRd(fileBuffer, fileDescriptorRecord + 15)),
         endOfFileOffset |-> ImgRd(fileBuffer, fileDescriptorRecord + 16),
         recordLength |-> ImgRd(fileBuffer, fileDescriptorRecord + 17)]

\* The DiskFile decoded from one file descriptor record.
decodeFile(fileBuffer, fileDescriptorSectorNo, dcpAU) ==
    LET fdr == fdrFields(fileBuffer, fileDescriptorSectorNo)
        diskFile == IF fdr.fileType = FileType_DATA
                    THEN DiskFile(fdr.fileName, fdr.fileType, fdr.recordType,
                                  fdr.recordLength, fdr.datatype)
                    ELSE DiskFile(fdr.fileName, fdr.fileType, 0, 0, 0)
        acc == chainLoop(fileBuffer, fdr, dcpAU, 0, fdr.sectorsAllocated, -1,
                         [records |-> <<>>, program |-> <<>>])
    IN  IF fdr.fileType = FileType_PROGRAM
        THEN setProgram(diskFile, acc.program)
        ELSE [diskFile EXCEPT !.records = acc.records]

\* The FDR sector number in slot fileDescriptorIndex of the descriptor index.
fileDescriptorSectorNoAt(fileBuffer, fileDescriptorIndex) ==
    Word(ImgRd(fileBuffer, 256 + fileDescriptorIndex * 2),
         ImgRd(fileBuffer, 256 + fileDescriptorIndex * 2 + 1))

\* The loop over the 128 slots of the descriptor index: every non-zero slot
\* is decoded and put into the catalog with putFile; slots holds the
\* non-zero sector numbers from slot k on, in slot order.
RECURSIVE slotLoop(_, _, _, _, _)
slotLoop(o, fileBuffer, slots, k, dcpAU) ==
    IF k > Len(slots) THEN o
    ELSE slotLoop(putFile(o, decodeFile(fileBuffer, slots[k], dcpAU)),
                  fileBuffer, slots, k + 1, dcpAU)

nonZeroSlots(fileBuffer) ==
    SelectSeq([i \in 1..128 |-> fileDescriptorSectorNoAt(fileBuffer, i - 1)],
              LAMBDA no : no # 0)

volumeHeader(fileBuffer) ==
    [volumeName |-> Trim(Printable(ImgRange(fileBuffer, 0, 10))),
     geometry |-> PhysicalProperties(Word(ImgRd(fileBuffer, 10), ImgRd(fileBuffer, 11)),
                                     ImgRd(fileBuffer, 12), ImgRd(fileBuffer, 17),
                                     ImgRd(fileBuffer, 18), ImgRd(fileBuffer, 19))]

\* loadBinaryImage without this.files = {}
loadBinaryImageKeepsFiles(o, fileBuffer) ==
    LET header == volumeHeader(fileBuffer)
        dcpAU == getSectorsPerAllocationUnitForDataChainPointers(o.geometry)
        o1 == slotLoop(o, fileBuffer, nonZeroSlots(fileBuffer), 1, dcpAU)
    IN  [o1 EXCEPT !.name = header.volumeName,
                   !.geometry = header.geometry,
                   !.binaryImage = Some(fileBuffer)]

loadBinaryImage(o, fileBuffer) ==
    LET header == volumeHeader(fileBuffer)
        dcpAU == getSectorsPerAllocationUnitForDataChainPointers(o.geometry)
        o1 == slotLoop([o EXCEPT !.files = EmptyCatalog], fileBuffer,
                      nonZeroSlots(fileBuffer), 1, dcpAU)
    IN  [o1 EXCEPT !.name = header.volumeName,
                   !.geometry = header.geometry,
                   !.binaryImage = Some(fileBuffer)]

\* restoreState(state): state is what getState returned, the catalog
\* entries being rebuilt from their own states.
restoreState(o, state) == [o EXCEPT !.name = state.name, !.files = state.files]

getState(o) == [name |-> o.name, files |-> o.files]

(***************************************************************************)
(* The inputs the operations are called with                               *)
(***************************************************************************)
MaxRecs == 4
MaxSector == 3

NameA == <<65>>
NameB == <<66>>
Names == {NameA, NameB}
VolumeNames == {<<68, 73, 83, 75>>, <<86, 79, 76>>}

DefaultGeometry == PhysicalProperties(1440, 18, 2, 2, 2)
\* A geometry with allocation units of two sectors.
WideGeometry == PhysicalProperties(2880, 36, 2, 2, 2)

Filled(len, v) == [i \in 1..len |-> v]

\* A DATA/FIXED 80 file of count records, record k filled with the digit k.
FixedFile(fileName, count) ==
    [DiskFile(fileName, FileType_DATA, RecordType_FIXED, 80, DataType_DISPLAY)
        EXCEPT !.records = [k \in 1..count |-> FixedRecord(Filled(80, 48 + k), 80)]]

\* A DATA/VARIABLE file whose record k has lens[k] bytes.
VariableFile(fileName, recordLength, lens) ==
    [DiskFile(fileName, FileType_DATA, RecordType_VARIABLE, recordLength, DataType_INTERNAL)
        EXCEPT !.records = [k \in 1..Len(lens) |-> VariableRecord(Filled(lens[k], 96 + k))]]

ProgramFile(fileName, len) ==
    setProgram(DiskFile(fileName, FileType_PROGRAM, 0, 0, 0),
               [i \in 1..len |-> 1 + (i % 250)])

\* The files putFile is called with.
InputFiles ==
    UNION {{FixedFile(n, MaxRecs), VariableFile(n, 80, <<5, 0, 7>>), ProgramFile(n, 300)}
           : n \in Names}

Catalog(fs) == [n \in {f.name : f \in fs} |-> CHOOSE f \in fs : f.name = n]

\* createTIFile of a file in a catalog of its own
Exported(file) == createTIFile(Catalog({file}), file.name)

\* The buffers loadTIFile is called with: null, a plain text shorter than a
\* header, exported files (the first a bare header, the last cut off in its
\* content) and a plain text of two lines.
TIBuffers ==
    {Null,
     Some(Filled(60, 73)),
     Exported(FixedFile(NameA, 0)),
     Exported(VariableFile(NameA, 80, <<5, 0, 7>>)),
     Some(Take(Exported(VariableFile(NameA, 80, <<5, 0, 7>>))[1], 140)),
     Some(Filled(80, 72) \o <<13, 10>> \o Filled(60, 73))}

\* The disks whose images loadBinaryImage is called with.
DiskSources ==
    <<[name |-> <<86, 79, 76>>, geometry |-> WideGeometry,
       files |-> Catalog({ProgramFile(NameA, 300), VariableFile(NameB, 80, <<5, 0, 7>>)})],
      [name |-> <<86, 79, 76>>, geometry |-> DefaultGeometry,
       files |-> Catalog({FixedFile(NameB, MaxRecs)})]>>

DiskBuffers ==
    [b \in 1..Len(DiskSources) |->
        createBinaryImage(DiskSources[b].name, DiskSources[b].geometry,
                          DiskSources[b].files)]

\* The states restoreState is called with.
SavedStates ==
    {[name |-> <<86, 79, 76>>, files |-> EmptyCatalog],
     [name |-> <<68, 73, 83, 75>>, files |-> Catalog({ProgramFile(NameB, 300)})]}

(***************************************************************************)
(* The state machine: one action per call on the DiskImage.  lastOp, ret   *)
(* and events describe the call that has just returned: the call and its   *)
(* arguments, the value it returned and the notifications the event        *)
(* handler received during it.  Return is the caller dropping them before  *)
(* it makes its next call.                                                 *)
(***************************************************************************)
Idle == [op |-> "idle"]

\* The disk image on its own, outside an application
NoApp == [op |-> "none"]

\* The object at the start of a call.
This == [name |-> name, files |-> files, geometry |-> geometry,
         binaryImage |-> binaryImage, eventHandler |-> eventHandler,
         events |-> <<>>]

Becomes(o) ==
    /\ name' = o.name
    /\ files' = o.files
    /\ geometry' = o.geometry
    /\ binaryImage' = o.binaryImage
    /\ eventHandler' = o.eventHandler
    /\ events' = o.events

\* new DiskImage(name, eventHandler)
Init ==
    /\ name = <<68, 73, 83, 75>>
    /\ files = EmptyCatalog
    /\ geometry = DefaultGeometry
    /\ binaryImage = Null
    /\ eventHandler \in BOOLEAN
    /\ events = <<>>
    /\ lastOp = Idle
    /\ ret = Null
    /\ app = NoApp

Return ==
    /\ lastOp # Idle
    /\ lastOp' = Idle
    /\ ret' = Null
    /\ UNCHANGED app
    /\ events' = <<>>
    /\ UNCHANGED <<name, files, geometry, binaryImage, eventHandler>>

SetEventHandler ==
    \E h \in BOOLEAN :
        /\ lastOp = Idle
        /\ Becomes([This EXCEPT !.eventHandler = h])
        /\ lastOp' = [op |-> "setEventHandler"]
        /\ ret' = Null
        /\ UNCHANGED app

PutFile ==
    \E file \in InputFiles :
        /\ lastOp = Idle
        /\ Becomes(putFile(This, file))
        /\ lastOp' = [op |-> "putFile", file |-> file]
        /\ ret' = Null
        /\ UNCHANGED app

DeleteFile ==
    \E fileName \in Names :
        /\ lastOp = Idle
        /\ Becomes(deleteFile(This, fileName))
        /\ lastOp' = [op |-> "deleteFile", fileName |-> fileName]
        /\ ret' = Null
        /\ UNCHANGED app

LoadTIFile ==
    \E fileName \in Names, fileBuffer \in TIBuffers, ignoreTIFileName \in BOOLEAN :
        LET r == loadTIFile(This, fileName, fileBuffer, ignoreTIFileName)
        IN  /\ lastOp = Idle
            /\ Becomes(r.o)
            /\ lastOp' = [op |-> "loadTIFile", fileName |-> fileName,
                          fileBuffer |-> fileBuffer,
                          ignoreTIFileName |-> ignoreTIFileName,
                          threw |-> r.threw]
            /\ ret' = r.ret
            /\ UNCHANGED app

\* createTIFile dropping the cached image
CreateTIFileInvalidates ==
    \E fileName \in Names :
        /\ lastOp = Idle
        /\ Becomes(invalidateBinaryImage(This))
        /\ lastOp' = [op |-> "createTIFile", fileName |-> fileName]
        /\ ret' = createTIFile(files, fileName)
        /\ UNCHANGED app

CreateTIFile ==
    \E fileName \in Names :
        /\ lastOp = Idle
        /\ Becomes(This)
        /\ lastOp' = [op |-> "createTIFile", fileName |-> fileName]
        /\ ret' = createTIFile(files, fileName)
        /\ UNCHANGED app

GetBinaryImage ==
    LET o == getBinaryImage(This)
    IN  /\ lastOp = Idle
        /\ Becomes(o)
        /\ lastOp' = [op |-> "getBinaryImage"]
        /\ ret' = o.binaryImage
        /\ UNCHANGED app

ReadSector ==
    \E sectorNo \in 0..MaxSector :
        LET r == readSector(This, sectorNo)
        IN  /\ lastOp = Idle
            /\ Becomes(r.o)
            /\ lastOp' = [op |-> "readSector", sectorNo |-> sectorNo]
            /\ ret' = Some(r.ret)
            /\ UNCHANGED app

LoadBinaryImage ==
    \E b \in 1..Len(DiskBuffers) :
        /\ lastOp = Idle
        /\ Becomes(loadBinaryImage(This, DiskBuffers[b]))
        /\ lastOp' = [op |-> "loadBinaryImage", buffer |-> b]
        /\ ret' = Null
        /\ UNCHANGED app

RestoreState ==
    \E state \in SavedStates :
        /\ lastOp = Idle
        /\ Becomes(restoreState(This, state))
        /\ lastOp' = [op |-> "restoreState", state |-> state]
        /\ ret' = Null
        /\ UNCHANGED app

Next ==
    \/ Return
    \/ SetEventHandler
    \/ PutFile
    \/ DeleteFile
    \/ LoadTIFile
    \/ CreateTIFile
    \/ GetBinaryImage
    \/ ReadSector
    \/ LoadBinaryImage
    \/ RestoreState

Spec == Init /\ [][Next]_vars

\* The calls the cache invariant is stated for.
NextCatalog ==
    \/ Return
    \/ SetEventHandler
    \/ PutFile
    \/ DeleteFile
    \/ LoadTIFile
    \/ CreateTIFile
    \/ GetBinaryImage
    \/ ReadSector

SpecCatalog == Init /\ [][NextCatalog]_vars

(***************************************************************************)
(* Properties of the cache and of the notifications                        *)
(***************************************************************************)
\* The disk image as a handler or caller sees it in the current state.
Current == [name |-> name, files |-> files, geometry |-> geometry,
            binaryImage |-> binaryImage]

\* C1: under putFile, deleteFile, loadTIFile, createTIFile, getBinaryImage
\* and readSector, a cached binary image is byte for byte the image
\* createBinaryImage produces from the current name, geometry and catalog.
CacheMatchesCatalog ==
    binaryImage # Null => binaryImage[1] = createBinaryImage(name, geometry, files)

\* A cached image of a catalog of two files, after a read.
CacheMatchesCatalogWitness ==
    /\ lastOp.op = "readSector"
    /\ binaryImage # Null
    /\ Cardinality(DOMAIN files) = 2

\* The file names and the volume name a disk image buffer lists.
ListedNames(img) == {fdrFields(img, nonZeroSlots(img)[k]).fileName
                     : k \in 1..Len(nonZeroSlots(img))}

\* C2: the image getBinaryImage returns lists the files of the current
\* catalog under the current name, whichever calls came before it.
NoStaleRead ==
    lastOp.op = "getBinaryImage" =>
        /\ ListedNames(ret[1]) = DOMAIN files
        /\ volumeHeader(ret[1]).volumeName = name

\* C3: with an event handler installed, putFile and deleteFile notify it
\* exactly once, with fileAdded or fileDeleted and the file name, and the
\* disk image it sees has the catalog already updated and no cached image;
\* nothing changes after the notification.
NotifiedAfterInvalidate ==
    /\ (lastOp.op = "putFile" /\ eventHandler) =>
          /\ Len(events) = 1
          /\ events[1].type = "fileAdded"
          /\ events[1].name = lastOp.file.name
          /\ events[1].diskImage.binaryImage = Null
          /\ lastOp.file.name \in DOMAIN events[1].diskImage.files
          /\ events[1].diskImage.files[lastOp.file.name] = lastOp.file
          /\ events[1].diskImage = Current
    /\ (lastOp.op = "deleteFile" /\ eventHandler) =>
          /\ Len(events) = 1
          /\ events[1].type = "fileDeleted"
          /\ events[1].name = lastOp.fileName
          /\ events[1].diskImage.binaryImage = Null
          /\ lastOp.fileName \notin DOMAIN events[1].diskImage.files
          /\ events[1].diskImage = Current
    /\ (lastOp.op \in {"putFile", "deleteFile"} /\ ~eventHandler) => events = <<>>

\* A deleteFile of a name that is not in the catalog has notified the handler.
NotifiedAfterInvalidateWitness ==
    /\ lastOp.op = "deleteFile"
    /\ eventHandler
    /\ Len(events) = 1
    /\ DOMAIN files = {NameA}
    /\ lastOp.fileName = NameB

\* C4: loadBinaryImage notifies nobody.
LoadBinaryImageSilent == lastOp.op = "loadBinaryImage" => events = <<>>

\* a is a prefix of b
IsPrefix(a, b) == Len(a) <= Len(b) /\ SubSeq(b, 1, Len(a)) = a

\* C5: after loadBinaryImage the cached image is the buffer, name and
\* geometry are those of its volume header, and the catalog holds exactly
\* the files of the buffer: each has the type and record format of the file
\* the buffer was made from, and its payload begins with that file's.
LoadedImageIsCached ==
    lastOp.op = "loadBinaryImage" =>
        LET src == DiskSources[lastOp.buffer]
        IN  /\ binaryImage = Some(DiskBuffers[lastOp.buffer])
            /\ name = src.name
            /\ geometry = src.geometry
            /\ DOMAIN files = DOMAIN src.files
            /\ \A n \in DOMAIN src.files :
                  /\ files[n].name = n
                  /\ files[n].fileType = src.files[n].fileType
                  /\ files[n].recordType = src.files[n].recordType
                  /\ files[n].recordLength = src.files[n].recordLength
                  /\ files[n].dataType = src.files[n].dataType
                  /\ IsPrefix(src.files[n].records, files[n].records)
                  /\ files[n].program = src.files[n].program

\* The image of the disk of one file was loaded.
LoadedImageIsCachedWitness ==
    /\ lastOp.op = "loadBinaryImage"
    /\ lastOp.buffer = 2
    /\ DOMAIN files = {NameB}
    /\ binaryImage = Some(DiskBuffers[2])

\* The 256 bytes of sector sectorNo of a disk image buffer.
SectorOf(img, sectorNo) ==
    IF sectorNo \in DOMAIN img.sec THEN img.sec[sectorNo] ELSE Zeros(SectorSize)

\* C6: getBinaryImage returns the cached image and readSector the bytes
\* 256 n .. 256 n + 255 of it, both leave an image cached, and neither
\* replaces an image that was cached before the call.
CachedImageIsReturned ==
    /\ [](lastOp.op = "getBinaryImage" => (binaryImage # Null /\ ret = binaryImage))
    /\ [](lastOp.op = "readSector" =>
            /\ binaryImage # Null
            /\ lastOp.sectorNo * SectorSize < binaryImage[1].len
            /\ ret[1] = SectorOf(binaryImage[1], lastOp.sectorNo))
    /\ [][(binaryImage # Null /\ lastOp'.op \in {"getBinaryImage", "readSector"})
            => binaryImage' = binaryImage]_vars

\* A sector of file data was read from an image that was already cached.
CachedImageIsReturnedWitness ==
    /\ lastOp.op = "readSector"
    /\ lastOp.sectorNo = MaxSector
    /\ ret[1] # Zeros(SectorSize)
    /\ binaryImage # Null

\* The buffer is absent, shorter than a header, or shorter than the content
\* offset plus the content length its header declares.
Malformed(fileName, fileBuffer, ignoreTIFileName) ==
    \/ fileBuffer = Null
    \/ Len(fileBuffer[1]) < HeaderSize
    \/ LET h == tiFields(fileName, fileBuffer[1], ignoreTIFileName)
       IN  Len(fileBuffer[1]) < h.sectorOffset + h.fileLength

\* C11: loadTIFile of a buffer that is absent, shorter than 128 bytes or
\* shorter than its declared content returns null without raising, and
\* leaves name, catalog, geometry and cached image as they were and notifies
\* nobody.
LoadTIFileRejects ==
    [][(/\ lastOp'.op = "loadTIFile"
        /\ Malformed(lastOp'.fileName, lastOp'.fileBuffer, lastOp'.ignoreTIFileName))
       => /\ ret' = Null
          /\ ~lastOp'.threw
          /\ events' = <<>>
          /\ UNCHANGED <<name, files, geometry, binaryImage, eventHandler>>]_vars

\* A buffer cut off in its content was rejected by a disk image that has a
\* file, a cached image and an event handler.
LoadTIFileRejectsWitness ==
    /\ lastOp.op = "loadTIFile"
    /\ lastOp.fileBuffer # Null
    /\ Len(lastOp.fileBuffer[1]) = 140
    /\ ret = Null
    /\ DOMAIN files # {}
    /\ binaryImage # Null
    /\ eventHandler

\* C18: createTIFile changes nothing and notifies nobody, whether the name
\* is in the catalog or not; it returns null exactly when it is not.
CreateTIFileChangesNothing ==
    [][lastOp'.op = "createTIFile"
       => /\ UNCHANGED <<name, files, geometry, binaryImage, eventHandler>>
          /\ events' = <<>>
          /\ (ret' = Null) <=> (lastOp'.fileName \notin DOMAIN files)]_vars

\* A name that is not in the catalog was exported from a disk image that
\* has a file, a cached image and an event handler.
CreateTIFileChangesNothingWitness ==
    /\ lastOp.op = "createTIFile"
    /\ lastOp.fileName \notin DOMAIN files
    /\ ret = Null
    /\ DOMAIN files # {}
    /\ binaryImage # Null
    /\ eventHandler

(***************************************************************************)
(* The codecs on their own: a disk that holds one or two files is exported *)
(* and encoded, and what was exported or encoded is read back by the same  *)
(* disk image.                                                             *)
(***************************************************************************)
CodecFiles(n) ==
    {FixedFile(n, 0), FixedFile(n, 3), FixedFile(n, MaxRecs),
     VariableFile(n, 80, <<5, 0, 7>>), VariableFile(n, 254, <<254, 0>>),
     VariableFile(n, 255, <<200, 100>>), VariableFile(n, 255, <<255>>),
     ProgramFile(n, 0), ProgramFile(n, 256), ProgramFile(n, 300)}

CodecCatalogs ==
    {Catalog({f}) : f \in CodecFiles(NameA)}
    \cup {Catalog({f, g}) : f \in CodecFiles(NameA), g \in CodecFiles(NameB)}

\* A disk image after the putFile calls that gave it its catalog, or after
\* loadBinaryImage of a larger disk and such calls.
InitCodec ==
    /\ name = <<68, 73, 83, 75>>
    /\ files \in CodecCatalogs
    /\ geometry \in {DefaultGeometry, WideGeometry}
    /\ binaryImage = Null
    /\ eventHandler = TRUE
    /\ events = <<>>
    /\ lastOp = Idle
    /\ ret = Null
    /\ app = NoApp

\* loadTIFile of the bytes createTIFile has just returned for the same name.
ImportExported ==
    /\ lastOp.op = "createTIFile"
    /\ LET r == loadTIFile(This, lastOp.fileName, ret, FALSE)
       IN  /\ Becomes(r.o)
           /\ lastOp' = [op |-> "importExported", fileName |-> lastOp.fileName,
                         exported |-> ret, original |-> files, threw |-> r.threw]
           /\ ret' = r.ret
           /\ UNCHANGED app

\* loadBinaryImage of the image getBinaryImage has just returned.
ReloadImage ==
    /\ lastOp.op = "getBinaryImage"
    /\ Becomes(loadBinaryImage(This, ret[1]))
    /\ lastOp' = [op |-> "reloadImage", original |-> files]
    /\ ret' = Null
    /\ UNCHANGED app

NextCodec ==
    \/ Return
    \/ CreateTIFile
    \/ GetBinaryImage
    \/ ImportExported
    \/ ReloadImage

SpecCodec == InitCodec /\ [][NextCodec]_vars

(***************************************************************************)
(* Properties of the codecs                                                *)
(***************************************************************************)
\* C7: loading the image getBinaryImage encoded gives a catalog of the same
\* file names in which every file has the payload it had.
DiskImageRoundTrip ==
    lastOp.op = "reloadImage" =>
        /\ DOMAIN files = DOMAIN lastOp.original
        /\ \A n \in DOMAIN lastOp.original : Payload(files[n]) = Payload(lastOp.original[n])

IsFixedData(file) ==
    file.fileType = FileType_DATA /\ file.recordType = RecordType_FIXED

\* C8: a FIXED DATA file of r records decodes from the encoded image to
\* exactly its r records, also when r is no multiple of the records per
\* sector.
FixedRecordCountRoundTrip ==
    lastOp.op = "reloadImage" =>
        \A n \in (DOMAIN lastOp.original) \cap (DOMAIN files) :
            IsFixedData(lastOp.original[n]) =>
                /\ Len(files[n].records) = Len(lastOp.original[n].records)
                /\ files[n].records = lastOp.original[n].records

\* C9: loadTIFile of the bytes createTIFile made of a catalog entry returns
\* an entry of the same fileType, recordType, recordLength, dataType and
\* payload.
TIFileRoundTrip ==
    (lastOp.op = "importExported" /\ lastOp.exported # Null) =>
        /\ ret # Null
        /\ LET f == lastOp.original[lastOp.fileName]
               g == ret[1]
           IN  /\ g.fileType = f.fileType
               /\ g.recordType = f.recordType
               /\ g.recordLength = f.recordLength
               /\ g.dataType = f.dataType
               /\ Payload(g) = Payload(f)

\* Where VARIABLE packing puts the length bytes of records[i..]: offsets
\* from the start of the content, offset being that of the next byte and
\* left the bytes left in its sector (a record and its length byte go to the
\* next sector when they do not fit).
RECURSIVE lengthByteOffsets(_, _, _, _)
lengthByteOffsets(records, i, offset, left) ==
    IF i > Len(records) THEN {}
    ELSE LET size == Len(records[i]) + 1
             at == IF left >= size THEN offset ELSE offset + left
             room == IF left >= size THEN left ELSE SectorSize
         IN  {at} \cup lengthByteOffsets(records, i + 1, at + size, room - size)

IsVariableData(file) ==
    file.fileType = FileType_DATA /\ file.recordType = RecordType_VARIABLE

\* C10: no length byte of a record that createTIFile or createBinaryImage
\* writes for a VARIABLE file is 0xFF.
LengthByteNeverTerminator ==
    /\ (lastOp.op = "createTIFile" /\ ret # Null /\ IsVariableData(files[lastOp.fileName])) =>
          \A p \in lengthByteOffsets(files[lastOp.fileName].records, 1, 0, SectorSize) :
              ret[1][HeaderSize + p + 1] # TerminatorByte
    /\ lastOp.op = "getBinaryImage" =>
          \A f \in 1..Len(imageLayout(geometry, files)) :
              LET e == imageLayout(geometry, files)[f]
              IN  IsVariableData(e.file) =>
                      \A p \in lengthByteOffsets(e.file.records, 1, 0, SectorSize) :
                          ImgRd(ret[1], e.startSectorNo * SectorSize + p) # TerminatorByte

(***************************************************************************)
(* Geometry and layout: disk images of every allocation unit size, among   *)
(* them one of four sectors only, whose catalogs include empty files and   *)
(* more files than the descriptor index has slots.  The geometry of a disk *)
(* image is whatever the volume header of the last loaded image said.      *)
(***************************************************************************)
SectorCounts == {4, 1440, 1599, 1600, 3199, 3200, 4095, 4096, 6399, 6400}

LayoutGeometries == {PhysicalProperties(t, 18, 2, 2, 2) : t \in SectorCounts}

\* 128 names of two upper-case letters
ManyNames == {<<a, b>> : a \in 65..72, b \in 65..80}

LayoutCatalogs ==
    {EmptyCatalog,
     Catalog({FixedFile(NameA, MaxRecs)}),
     Catalog({FixedFile(NameA, 0), ProgramFile(NameB, 300)}),
     Catalog({VariableFile(NameA, 80, <<5, 0, 7>>), ProgramFile(NameB, 600)}),
     Catalog({ProgramFile(NameA, 512), FixedFile(NameB, 0)}),
     Catalog({ProgramFile(NameA, 300), VariableFile(NameB, 80, <<>>)}),
     Catalog({FixedFile(n, 0) : n \in ManyNames})}

\* The disks whose images are loaded into a disk image of another geometry.
ForeignSources ==
    <<[name |-> <<86, 79, 76>>, geometry |-> PhysicalProperties(4096, 18, 2, 2, 2),
       files |-> Catalog({ProgramFile(NameA, 300), FixedFile(NameB, 3)})],
      [name |-> <<86, 79, 76>>, geometry |-> DefaultGeometry,
       files |-> Catalog({ProgramFile(NameA, 300)})]>>

ForeignBuffers ==
    [b \in 1..Len(ForeignSources) |->
        createBinaryImage(ForeignSources[b].name, ForeignSources[b].geometry,
                          ForeignSources[b].files)]

\* A disk image after the loadBinaryImage that gave it its geometry and the
\* putFile and deleteFile calls that gave it its catalog.
InitGeometry ==
    /\ name = <<68, 73, 83, 75>>
    /\ files \in LayoutCatalogs
    /\ geometry \in LayoutGeometries
    /\ binaryImage = Null
    /\ eventHandler = TRUE
    /\ events = <<>>
    /\ lastOp = Idle
    /\ ret = Null
    /\ app = NoApp

\* loadBinaryImage of the image of a disk of another geometry
LoadForeignImage ==
    \E b \in 1..Len(ForeignBuffers) :
        /\ lastOp = Idle
        /\ Becomes(loadBinaryImage(This, ForeignBuffers[b]))
        /\ lastOp' = [op |-> "loadForeignImage", buffer |-> b]
        /\ ret' = Null
        /\ UNCHANGED app

NextGeometry ==
    \/ Return
    \/ GetBinaryImage
    \/ LoadForeignImage

SpecGeometry == InitGeometry /\ [][NextGeometry]_vars

(***************************************************************************)
(* Properties of geometry and layout                                       *)
(***************************************************************************)
\* C12: the files loadBinaryImage puts into the catalog are those the data
\* chain pointers give when their start values are multiplied by the DCP
\* allocation unit size of the loaded image (the geometry the disk image has
\* after the call), whatever its geometry was before.
DcpUnitOfLoadedImage ==
    lastOp.op = "loadForeignImage" =>
        LET img == binaryImage[1]
            slots == nonZeroSlots(img)
            dcpAU == getSectorsPerAllocationUnitForDataChainPointers(geometry)
        IN  \A k \in 1..Len(slots) :
                LET file == decodeFile(img, slots[k], dcpAU)
                IN  /\ file.name \in DOMAIN files
                    /\ files[file.name] = file

\* getBinaryImage has just returned an image createBinaryImage made of the
\* current name, geometry and catalog.
Fresh ==
    /\ lastOp.op = "getBinaryImage"
    /\ ret = Some(createBinaryImage(name, geometry, files))

\* The allocation unit size by the number of the thresholds 1600, 3200 and
\* 6400 the total sector count has reached.
StepAU(totalSectors) == 2 ^ Cardinality({t \in {1600, 3200, 6400} : t <= totalSectors})

BitmapBit(img, a) == (ImgRd(img, 56 + (a \div 8)) \div (2 ^ (a % 8))) % 2 = 1

\* C14: in the image createBinaryImage made, the bit of an allocation unit
\* of the disk is set exactly when the unit is reserved (sector 0, and sector
\* 1 when units are single sectors), holds the FDR of an encoded file or
\* holds a data sector of an encoded file.
BitmapMarksUsedUnits ==
    Fresh =>
        LET img == ret[1]
            sectorsPerAU == StepAU(geometry.totalSectors)
            lay == imageLayout(geometry, files)
            reserved == IF sectorsPerAU = 1 THEN {0, 1} ELSE {0}
            withFdr == {lay[f].fdrSectorNo \div sectorsPerAU : f \in 1..Len(lay)}
            withData == UNION {{s \div sectorsPerAU : s \in lay[f].startSectorNo..lay[f].sectorNo}
                               : f \in 1..Len(lay)}
        IN  \A a \in 0..((geometry.totalSectors \div sectorsPerAU) - 1) :
                BitmapBit(img, a) <=> a \in (reserved \cup withFdr \cup withData)

PlainNames ==
    {<<65>>,
     <<65, 46, 66>>,
     <<76, 79, 78, 71, 78, 65, 77, 69, 49, 48>>,
     <<76, 79, 78, 71, 70, 73, 76, 69, 78, 65, 77, 69, 46, 84, 88, 84>>}

\* A line of 80 H and a line of 60 I with, between them: CR LF, CR and
\* another byte, another byte and LF, nothing; and two lines of 80 H with
\* nothing between and after them.
PlainBuffers ==
    {Filled(80, 72) \o <<13, 10>> \o Filled(60, 73),
     Filled(80, 72) \o <<13, 88>> \o Filled(60, 73),
     Filled(80, 72) \o <<88, 10>> \o Filled(60, 73),
     Filled(80, 72) \o Filled(60, 73),
     Filled(160, 72)}

\* loadTIFile of plain bytes
ImportPlain ==
    \E fileName \in PlainNames, fileBuffer \in PlainBuffers :
        LET r == loadTIFile(This, fileName, Some(fileBuffer), FALSE)
        IN  /\ lastOp = Idle
            /\ Becomes(r.o)
            /\ lastOp' = [op |-> "importPlain", fileName |-> fileName,
                          fileBuffer |-> fileBuffer, threw |-> r.threw]
            /\ ret' = r.ret
            /\ UNCHANGED app

\* A TIFILES header of the given sector count, status flags, records per
\* sector, EOF offset and record length, its name field blank.
ArchiveHeader(sectors, flags, recsPerSector, eofOffset, recordLength) ==
    LET h == <<7>> \o TIFILES \o writeWord(sectors)
             \o <<flags, recsPerSector, eofOffset, recordLength>>
             \o writeLEWord(0) \o Spaces(10)
    IN  h \o Zeros(HeaderSize - Len(h))

\* Headers followed by a few bytes: a PROGRAM of no sector with EOF offset
\* 16, a PROGRAM of one sector with EOF offset 16, and DATA/FIXED and
\* DATA/VARIABLE files of no sector with EOF offset 16.
ArchiveBuffers ==
    {ArchiveHeader(0, 1, 0, 16, 0) \o Filled(2, 65),
     ArchiveHeader(1, 1, 0, 16, 0) \o Filled(16, 65),
     ArchiveHeader(0, 0, 3, 16, 80) \o Filled(2, 65),
     ArchiveHeader(0, 128, 3, 16, 80) \o Filled(2, 65)}

\* loadTIFile of bytes that begin with a TIFILES header
ImportArchive ==
    \E fileName \in {NameA, NameB}, fileBuffer \in ArchiveBuffers :
        LET r == loadTIFile(This, fileName, Some(fileBuffer), FALSE)
        IN  /\ lastOp = Idle
            /\ Becomes(r.o)
            /\ lastOp' = [op |-> "importArchive", fileName |-> fileName,
                          fileBuffer |-> fileBuffer, threw |-> r.threw]
            /\ ret' = r.ret
            /\ UNCHANGED app

NextImport ==
    \/ Return
    \/ SetEventHandler
    \/ ImportPlain
    \/ ImportArchive

SpecImport == Init /\ [][NextImport]_vars

(***************************************************************************)
(* Properties of the fallback import                                       *)
(***************************************************************************)
\* The characters 0-9, A-Z, a-z, _ and -
FileSystemChars == (48..57) \cup (65..90) \cup (97..122) \cup {95, 45}

\* C16: the entry the fallback import creates is named by the supplied name
\* without the characters outside 0-9, A-Z, a-z, _ and -, cut to its first
\* 10 characters.
FallbackNameFiltered ==
    lastOp.op = "importPlain" =>
        /\ ret # Null
        /\ ret[1].name = Take(SelectSeq(lastOp.fileName,
                                        LAMBDA c : c \in FileSystemChars), 10)
        /\ ret[1].name \in DOMAIN files

\* The records the fallback import is to give: chunks of recordLength bytes
\* from byte i on, a last short chunk padded, and after a full chunk the two
\* bytes 0x0D 0x0A skipped, nothing else.
RECURSIVE LinesOf(_, _, _)
LinesOf(fileBuffer, i, recordLength) ==
    IF i >= Len(fileBuffer) THEN <<>>
    ELSE IF i + recordLength > Len(fileBuffer)
    THEN <<FixedRecord(SubSeq(fileBuffer, i + 1, Len(fileBuffer)), recordLength)>>
    ELSE LET next == i + recordLength
             lineEnd == next + 2 <= Len(fileBuffer)
                        /\ fileBuffer[next + 1] = 13 /\ fileBuffer[next + 2] = 10
         IN  <<SubSeq(fileBuffer, i + 1, next)>>
             \o LinesOf(fileBuffer, IF lineEnd THEN next + 2 ELSE next, recordLength)

\* C17: the fallback import cuts the bytes into records of 80 bytes and
\* skips the two bytes after a full record exactly when they are 0x0D 0x0A;
\* in every other case they are data of the next record.
LineEndSkippedExactly ==
    lastOp.op = "importPlain" =>
        /\ ret # Null
        /\ ret[1].records = LinesOf(lastOp.fileBuffer, 0, 80)

\* C19: in the image createBinaryImage made, the data of every encoded file
\* starts at a multiple of sectorsPerAU after all FDR sectors, the data
\* sectors of two files are disjoint, and no data sector is sector 0, sector
\* 1 or an FDR sector.  The descriptor index and the data chain pointers of
\* the image are those of this layout.
DataSectorsDisjoint ==
    Fresh =>
        LET img == ret[1]
            t == geometry.totalSectors
            sectorsPerAU == StepAU(t)
            dcpUnit == IF t < 4096 THEN 1 ELSE sectorsPerAU
            lay == imageLayout(geometry, files)
            fdrs == {lay[f].fdrSectorNo : f \in 1..Len(lay)}
            data(f) == lay[f].startSectorNo .. lay[f].sectorNo
        IN  /\ \A f \in 1..Len(lay) :
                  /\ lay[f].startSectorNo % sectorsPerAU = 0
                  /\ \A s \in fdrs : s < lay[f].startSectorNo
                  /\ data(f) \cap ({0, 1} \cup fdrs) = {}
                  /\ \A g \in 1..Len(lay) : f # g => data(f) \cap data(g) = {}
                  /\ fileDescriptorSectorNoAt(img, f - 1) = lay[f].fdrSectorNo
                  /\ (lay[f].fdrSectorNo + 1) * SectorSize <= img.len =>
                        LET fdr == lay[f].fdrSectorNo * SectorSize
                        IN  ((ImgRd(img, fdr + 29) % 16) * 256 + ImgRd(img, fdr + 28))
                                * dcpUnit = lay[f].startSectorNo

\* The image of a disk with allocation units of four sectors that holds an
\* empty file and, after it, a file of two sectors.
DataSectorsDisjointWitness ==
    /\ Fresh
    /\ geometry.totalSectors = 3200
    /\ DOMAIN files = {NameA, NameB}
    /\ LET lay == imageLayout(geometry, files)
       IN  /\ lay[1].sectorNo < lay[1].startSectorNo
           /\ lay[2].startSectorNo = lay[1].startSectorNo
           /\ lay[2].sectorNo = lay[2].startSectorNo + 1

\* C20: every FDR sector and every data sector createBinaryImage assigns is
\* below totalSectors, and the image holds every data sector of every
\* encoded file.
ContentFitsOnDisk ==
    Fresh =>
        LET img == ret[1]
            lay == imageLayout(geometry, files)
        IN  \A f \in 1..Len(lay) :
                LET data == dataSectors(lay[f].file)
                IN  /\ lay[f].fdrSectorNo < geometry.totalSectors
                    /\ lay[f].sectorNo < geometry.totalSectors
                    /\ \A k \in 1..Len(data) :
                          /\ (lay[f].startSectorNo + k) * SectorSize <= img.len
                          /\ SectorOf(img, lay[f].startSectorNo + k - 1) = data[k]

(***************************************************************************)
(* Properties of loadTIFile as a whole                                     *)
(***************************************************************************)
\* C21: loadTIFile always returns, either null or an entry that is then in
\* the catalog under its name; it never raises, also not for a TIFILES
\* header of no sector with a non-zero EOF offset.
LoadTIFileNeverRaises ==
    lastOp.op \in {"importPlain", "importArchive"} =>
        /\ ~lastOp.threw
        /\ ret # Null =>
              /\ ret[1].name \in DOMAIN files
              /\ files[ret[1].name] = ret[1]

(***************************************************************************)
(* AppComponent (src/app/app.component.ts): saving and restoring the state *)
(* of the machine through the database service.  app is the component:     *)
(*   op          the call in progress: saveDiskImages, saveDiskDrives,     *)
(*               saveState or restoreState, or none                        *)
(*   diskImages  the length of this.diskImages                             *)
(*   diskDrives  the length of this.ti994A.getDiskDrives()                 *)
(*   supported   databaseService.isSupported()                             *)
(*   f18AEnabled settingsService.isF18AEnabled()                           *)
(*   running     ti994A.isRunning()                                        *)
(*   wasRunning  the constant wasRunning of restoreState                   *)
(*   calls       the calls made to the database service and to the command *)
(*               dispatcher, in order, each with the result its callback   *)
(*               was called with, null while the callback is outstanding   *)
(*   callbacks   the calls of the callbacks given to saveDiskImages and    *)
(*               saveDiskDrives, in order                                  *)
(* The database service calls the callback of each request once, with a    *)
(* result of its choice.  One call of the component is followed to its end *)
(* before the next is made.                                                *)
(***************************************************************************)
MaxImages == 2
MaxDrives == 2

AppComponent(diskImages, diskDrives, supported, f18AEnabled, running) ==
    [op |-> "none", diskImages |-> diskImages, diskDrives |-> diskDrives,
     supported |-> supported, f18AEnabled |-> f18AEnabled, running |-> running,
     wasRunning |-> FALSE, calls |-> <<>>, callbacks |-> <<>>]

\* A request to the database service whose callback is outstanding.
request(a, call, index) ==
    [a EXCEPT !.calls = Append(@, [call |-> call, index |-> index, result |-> Null])]

\* The database service calls the callback of the outstanding request.
respond(a, result) ==
    [a EXCEPT !.calls[Len(a.calls)].result = Some(result)]

\* commandDispatcherService.stop() and start()
stop(a) ==
    [a EXCEPT !.running = FALSE,
              !.calls = Append(@, [call |-> "stop", index |-> 0, result |-> Some(TRUE)])]

start(a) ==
    [a EXCEPT !.running = TRUE,
              !.calls = Append(@, [call |-> "start", index |-> 0, result |-> Some(TRUE)])]

\* callback(success) of saveDiskImages or saveDiskDrives is called
called(a, of, success) ==
    [a EXCEPT !.callbacks = Append(@, [of |-> of, success |-> success])]

\* The callback saveDiskDrives is given: that of its caller, or in
\* saveState function (success2), which puts the machine state.
diskDrivesSaved(a, success2) ==
    LET a1 == called(a, "saveDiskDrives", success2)
    IN  IF a.op = "saveState" /\ success2
        THEN request(a1, "putMachineState", 0)
        ELSE a1

saveDiskDrives(a, index) ==
    IF index = a.diskDrives
    THEN diskDrivesSaved(a, TRUE)
    ELSE request(a, "putDiskDrive", index)

\* function (ok) given to putDiskDrive, continuing after a failure
putDiskDriveDoneAlways(a, index, ok) == saveDiskDrives(a, index + 1)

\* function (ok) given to putDiskDrive
putDiskDriveDone(a, index, ok) ==
    IF ok THEN saveDiskDrives(a, index + 1) ELSE diskDrivesSaved(a, FALSE)

\* The callback saveDiskImages is given: that of its caller, or in
\* saveState function (success1), which saves the disk drives.
diskImagesSaved(a, success1) ==
    LET a1 == called(a, "saveDiskImages", success1)
    IN  IF a.op = "saveState" /\ success1
        THEN saveDiskDrives(a1, 0)
        ELSE a1

saveDiskImages(a, index) ==
    IF index = a.diskImages
    THEN diskImagesSaved(a, TRUE)
    ELSE request(a, "putDiskImage", index)

\* function (ok) given to putDiskImage, continuing after a failure
putDiskImageDoneAlways(a, index, ok) == saveDiskImages(a, index + 1)

\* function (ok) given to putDiskImage
putDiskImageDone(a, index, ok) ==
    IF ok THEN saveDiskImages(a, index + 1) ELSE diskImagesSaved(a, FALSE)

\* function (success) given to deleteAllDiskImages, going on after a failure
oldImagesDeletedAlways(a, success) == saveDiskImages(a, 0)

\* function (success) given to deleteAllDiskImages
oldImagesDeleted(a, success) ==
    IF success THEN saveDiskImages(a, 0) ELSE a

saveState(a) ==
    IF a.supported THEN request(a, "deleteAllDiskImages", 0) ELSE a

\* function (state) given to getMachineState: state is null or what was
\* saved, of which f18A says whether state.vdp.gpu is an object.
machineStateRead(a, state) ==
    IF state # Null
    THEN IF state[1].f18A # a.f18AEnabled
         THEN a
         ELSE IF a.wasRunning THEN start(a) ELSE a
    ELSE a

\* The callback loadDiskDrives is given by restoreState.
diskDrivesLoaded(a, success) ==
    IF success THEN request(a, "getMachineState", 0) ELSE a

loadDiskDrives(a, index) ==
    IF index = a.diskDrives
    THEN diskDrivesLoaded(a, TRUE)
    ELSE request(a, "getDiskDrive", index)

\* function (diskDriveState) given to getDiskDrive
getDiskDriveDone(a, index, diskDriveState) ==
    IF diskDriveState # Null
    THEN loadDiskDrives(a, index + 1)
    ELSE diskDrivesLoaded(a, FALSE)

\* function (diskImages) given to getDiskImages: diskImages is null or an
\* array of the given length.
diskImagesRead(a, diskImages) ==
    IF diskImages # Null
    THEN loadDiskDrives([a EXCEPT !.diskImages = diskImages[1]], 0)
    ELSE a

\* AppComponent.restoreState
appRestoreState(a) ==
    request(stop([a EXCEPT !.wasRunning = a.running]), "getDiskImages", 0)

\* The request whose callback is outstanding, if there is one.
outstanding(a) ==
    IF a.calls # <<>> /\ a.calls[Len(a.calls)].result = Null
    THEN Some(a.calls[Len(a.calls)])
    ELSE Null

Outstanding(call) ==
    /\ outstanding(app) # Null
    /\ outstanding(app)[1].call = call

diskVars == <<name, files, geometry, binaryImage, eventHandler, events, lastOp, ret>>

InitApp ==
    /\ name = "DSK1"
    /\ files = EmptyCatalog
    /\ geometry = DefaultGeometry
    /\ binaryImage = Null
    /\ eventHandler = Null
    /\ events = <<>>
    /\ lastOp = Idle
    /\ ret = Undefined
    /\ app \in {AppComponent(i, d, s, f, r) :
                    i \in 0..MaxImages, d \in 0..MaxDrives,
                    s \in BOOLEAN, f \in BOOLEAN, r \in BOOLEAN}

\* this.saveDiskImages(this.diskImages, 0, callback)
SaveDiskImages ==
    /\ app.op = "none"
    /\ app' = saveDiskImages([app EXCEPT !.op = "saveDiskImages"], 0)
    /\ UNCHANGED diskVars

\* this.saveDiskDrives(this.ti994A.getDiskDrives(), 0, callback)
SaveDiskDrives ==
    /\ app.op = "none"
    /\ app' = saveDiskDrives([app EXCEPT !.op = "saveDiskDrives"], 0)
    /\ UNCHANGED diskVars

\* CommandType.SAVE_STATE
SaveState ==
    /\ app.op = "none"
    /\ app' = saveState([app EXCEPT !.op = "saveState"])
    /\ UNCHANGED diskVars

\* CommandType.RESTORE_STATE
AppRestoreState ==
    /\ app.op = "none"
    /\ app' = appRestoreState([app EXCEPT !.op = "restoreState"])
    /\ UNCHANGED diskVars

DeleteAllDiskImagesDone ==
    /\ Outstanding("deleteAllDiskImages")
    /\ \E success \in BOOLEAN :
           app' = oldImagesDeleted(respond(app, success), success)
    /\ UNCHANGED diskVars

PutDiskImageDone ==
    /\ Outstanding("putDiskImage")
    /\ \E ok \in BOOLEAN :
           app' = putDiskImageDone(respond(app, ok), outstanding(app)[1].index, ok)
    /\ UNCHANGED diskVars

PutDiskDriveDone ==
    /\ Outstanding("putDiskDrive")
    /\ \E ok \in BOOLEAN :
           app' = putDiskDriveDone(respond(app, ok), outstanding(app)[1].index, ok)
    /\ UNCHANGED diskVars

PutMachineStateDone ==
    /\ Outstanding("putMachineState")
    /\ \E success3 \in BOOLEAN : app' = respond(app, success3)
    /\ UNCHANGED diskVars

GetDiskImagesDone ==
    /\ Outstanding("getDiskImages")
    /\ \E diskImages \in {Null} \cup {Some(n) : n \in 0..MaxImages} :
           app' = diskImagesRead(respond(app, diskImages # Null), diskImages)
    /\ UNCHANGED diskVars

GetDiskDriveDone ==
    /\ Outstanding("getDiskDrive")
    /\ \E diskDriveState \in {Null, Some(TRUE)} :
           app' = getDiskDriveDone(respond(app, diskDriveState # Null),
                                   outstanding(app)[1].index, diskDriveState)
    /\ UNCHANGED diskVars

GetMachineStateDone ==
    /\ Outstanding("getMachineState")
    /\ \E state \in {Null} \cup {Some([f18A |-> b]) : b \in BOOLEAN} :
           app' = machineStateRead(respond(app, state # Null), state)
    /\ UNCHANGED diskVars

\* The call of the component has come to its end; the next can be made.
AppReturn ==
    /\ app.op # "none"
    /\ outstanding(app) = Null
    /\ app' = [app EXCEPT !.op = "none", !.wasRunning = FALSE,
                          !.calls = <<>>, !.callbacks = <<>>]
    /\ UNCHANGED diskVars

NextApp ==
    \/ SaveDiskImages
    \/ SaveDiskDrives
    \/ SaveState
    \/ AppRestoreState
    \/ DeleteAllDiskImagesDone
    \/ PutDiskImageDone
    \/ PutDiskDriveDone
    \/ PutMachineStateDone
    \/ GetDiskImagesDone
    \/ GetDiskDriveDone
    \/ GetMachineStateDone
    \/ AppReturn

SpecApp == InitApp /\ [][NextApp]_vars

(***************************************************************************)
(* The chains of saveDiskImages and saveDiskDrives                         *)
(***************************************************************************)
CallsOf(call) == SelectSeq(app.calls, LAMBDA c : c.call = call)

CallbacksOf(of) == SelectSeq(app.callbacks, LAMBDA c : c.of = of)

\* The chain of the given puts over count items, begun when started holds:
\* the puts are those of the items 0, 1, ... in this order, each made only
\* after the one before succeeded; the callback is called at most once, and
\* exactly when all the puts have succeeded or the last one has failed, with
\* true in the first case and false in the second.
ChainInOrder(call, of, count, started) ==
    LET puts == CallsOf(call)
        cbs  == CallbacksOf(of)
        allOk == /\ Len(puts) = count
                 /\ \A k \in 1..count : puts[k].result = Some(TRUE)
        failed == /\ puts # <<>>
                  /\ puts[Len(puts)].result = Some(FALSE)
    IN  /\ Len(puts) <= count
        /\ \A k \in 1..Len(puts) : puts[k].index = k - 1
        /\ \A k \in 1..(Len(puts) - 1) : puts[k].result = Some(TRUE)
        /\ Len(cbs) <= 1
        /\ ~started => puts = <<>> /\ cbs = <<>>
        /\ started => /\ Len(cbs) = 1 <=> (allOk \/ failed)
                      /\ Len(cbs) = 1 => (cbs[1].success <=> allOk)

\* C22: saveDiskImages(images, 0, cb) puts the images one at a time in
\* ascending index order, each only after the put before it succeeded; cb
\* is called exactly once, with true iff every put succeeded and with false
\* at the first failing put, after which no image is put.  saveDiskDrives
\* does the same with the disk drives.
SaveChainsInOrder ==
    /\ app.op = "saveDiskImages" =>
           ChainInOrder("putDiskImage", "saveDiskImages", app.diskImages, TRUE)
    /\ app.op = "saveDiskDrives" =>
           ChainInOrder("putDiskDrive", "saveDiskDrives", app.diskDrives, TRUE)

SaveChainsInOrderWitness ==
    /\ app.op = "saveDiskImages"
    /\ app.diskImages = MaxImages
    /\ Len(app.calls) = 2
    /\ app.calls[1].result = Some(TRUE)
    /\ app.calls[2].result = Some(FALSE)
    /\ app.callbacks = <<[of |-> "saveDiskImages", success |-> FALSE]>>

(***************************************************************************)
(* The stages of saveState                                                 *)
(***************************************************************************)
\* The requests of a saveState that meets no failure, in order.
SaveStages(diskImages, diskDrives) ==
    <<[call |-> "deleteAllDiskImages", index |-> 0]>>
    \o [k \in 1..diskImages |-> [call |-> "putDiskImage", index |-> k - 1]]
    \o [k \in 1..diskDrives |-> [call |-> "putDiskDrive", index |-> k - 1]]
    \o <<[call |-> "putMachineState", index |-> 0]>>

\* C23: saveState runs its stages in order and stops at the first failure:
\* the old images are deleted, then every disk image is put, then every
\* disk drive, then the machine state, each request made only after the one
\* before it succeeded; when the database is not supported nothing is
\* requested.
SaveStateStagesInOrder ==
    app.op = "saveState" =>
        LET stages == SaveStages(app.diskImages, app.diskDrives)
        IN  /\ ~app.supported => app.calls = <<>>
            /\ Len(app.calls) <= Len(stages)
            /\ \A k \in 1..Len(app.calls) :
                   /\ app.calls[k].call = stages[k].call
                   /\ app.calls[k].index = stages[k].index
            /\ \A k \in 1..(Len(app.calls) - 1) :
                   app.calls[k].result = Some(TRUE)

SaveStateStagesInOrderWitness ==
    /\ app.op = "saveState"
    /\ app.diskImages = MaxImages
    /\ app.diskDrives = MaxDrives
    /\ Len(app.calls) = MaxImages + MaxDrives + 2
    /\ app.calls[Len(app.calls)].call = "putMachineState"
    /\ app.calls[Len(app.calls)].result = Some(TRUE)

(***************************************************************************)
(* restoreState and the running machine                                    *)
(***************************************************************************)
\* The restore chain has come to its end: no callback is outstanding.
RestoreEnded ==
    /\ app.op = "restoreState"
    /\ outstanding(app) = Null

\* The machine is stopped before the database is read.
StoppedBeforeReading ==
    app.op = "restoreState" =>
        /\ Len(app.calls) >= 2
        /\ app.calls[1].call = "stop"
        /\ app.calls[2].call = "getDiskImages"

\* A machine that was not running is never started.
NeverStartedUnlessRunning ==
    (app.op = "restoreState" /\ ~app.wasRunning) =>
        /\ ~app.running
        /\ CallsOf("start") = <<>>

\* C24: restoreState keeps the running state of the machine: it stops the
\* machine before reading the database, and a machine that was running is
\* running again once the restore chain has ended, whichever way it ended;
\* a machine that was not running is never started.
RunningStatePreserved ==
    /\ StoppedBeforeReading
    /\ NeverStartedUnlessRunning
    /\ RestoreEnded => (app.running <=> app.wasRunning)

====
